---- MODULE Spec2Model ----
(***************************************************************************)
(* Model of the data services of @node-in-layers/data (src/src/services.ts):*)
(* the database-objects factory, the multi-database registry               *)
(* (getDatabases / _getDatabases) and the cleanup coordinator (cleanup).    *)
(*                                                                         *)
(* JavaScript runs one microtask at a time, so every action below is one   *)
(* synchronous stretch of code between two awaits; the calls interleave    *)
(* only at their awaits.                                                   *)
(***************************************************************************)
EXTENDS Integers, Sequences, FiniteSets, TLC

\* ------------------------------------------------------------------ bounds
\* number of service calls (getDatabases() or cleanup()) the application issues
MaxOps == 2

\* the calls, numbered in the order the application issues them
Ops == 1..MaxOps

\* ------------------------------------------------------- types and inputs
\* enum SupportedDatabase (types.ts:189-197)
SupportedDatabase ==
  {"memory", "dynamo", "mongo", "opensearch", "mysql", "postgres", "sqlite"}

\* datastoreType values a configuration can carry at run time: the seven
\* supported ones, a name nothing defines, and a name every object literal
\* inherits from Object.prototype.
DatastoreTypes == SupportedDatabase \cup {"nonexistent", "constructor"}

\* logical database names, in the order the configuration lists them
KeyOrder == <<"default", "cache", "legacy">>
LogicalNames == {KeyOrder[i] : i \in 1..Len(KeyOrder)}

NoError == [kind |-> "none", arg |-> ""]
Err(kind, arg) == [kind |-> kind, arg |-> arg]

VARIABLES
  databases,   \* config '@node-in-layers/data'.databases: name -> datastoreType
  calls,       \* the getDatabases() invocations, by call id
  builds,      \* every run of a builder, by <<call id, logical name>>
  cleanups,    \* the cleanup() invocations
  dispatched,  \* history: every dispatch getDatabaseObjects performed
  backend,     \* the datastore behind the bound model of the CRUD service
  store,       \* the records of that datastore, by primary key
  deleting,    \* the delete(id) calls between their retrieve and their delete
  log,         \* history: the completed CRUD operations, in completion order
  naming,      \* the last name resolution: its inputs and its result
  merging,     \* the configured entries as objects and the props merged from them
  connection,  \* the props of a mongo database and what its builder connects with
  wrapping     \* the inputs and the result of wrapping CRUD services

vars == <<databases, calls, builds, cleanups, dispatched,
          backend, store, deleting, log, naming, merging, connection, wrapping>>
otherVars == <<merging, connection, wrapping>>
registryVars == <<databases, calls, builds, cleanups, dispatched>>
crudVars == <<backend, store, deleting, log>>

\* ---------------------------------------------------------------- factory
\* _supportedToDatastoreProviderFunc[props.datastoreType] (services.ts:226-237,
\* 327).  The table is an object literal, so the lookup also finds what the
\* literal inherits: 'constructor' yields the Object function.  A props value
\* without datastoreType looks up the key 'undefined'.
supportedToDatastoreProviderFunc(t) ==
  CASE t = "memory"      -> "createMemoryDatabaseObjects"
    [] t = "dynamo"      -> "createDynamoDatabaseObjects"
    [] t = "mongo"       -> "createMongoDatabaseObjects"
    [] t = "opensearch"  -> "createOpensearchDatabaseObjects"
    [] t = "sqlite"      -> "createSqlDatabaseObjects"
    [] t = "mysql"       -> "createSqlDatabaseObjects"
    [] t = "postgres"    -> "createSqlDatabaseObjects"
    [] t = "constructor" -> "Object"
    [] OTHER             -> "undefined"

Builders ==
  {"createMemoryDatabaseObjects", "createDynamoDatabaseObjects",
   "createMongoDatabaseObjects", "createOpensearchDatabaseObjects",
   "createSqlDatabaseObjects"}

\* does the builder construct a native client (MongoClient, OpenSearchClient,
\* knex, DynamoDBClient); the memory builder only creates its provider
ConstructsClient(func) ==
  func \in Builders \ {"createMemoryDatabaseObjects"}

\* what the synchronous part of func(props) can do (services.ts:66-224):
\*   "bundle"  it returns a DatabaseObjects bundle
\*   "await"   it constructed the client and awaits mongoClient.connect()
\*   "throw"   knex(knexConfig) throws (the sql driver is not bundled)
\*   "props"   Object(props) returns props itself, which is no bundle
BuilderSteps(func) ==
  CASE func = "createMongoDatabaseObjects" -> {"await"}
    [] func = "createSqlDatabaseObjects"   -> {"bundle", "throw"}
    [] func = "Object"                     -> {"props"}
    [] OTHER                               -> {"bundle"}

\* getDatabaseObjects(props) up to the call of func (services.ts:323-333)
getDatabaseObjects(t) ==
  LET func == supportedToDatastoreProviderFunc(t)
  IN  IF func = "undefined"
        THEN [func |-> "none", error |-> Err("Unhandled type", t)]
        ELSE [func |-> func, error |-> NoError]

\* outcomes of what the bundle's cleanup function calls: mongoClient.close()
\* can fail (services.ts:97-99); the other bundles' cleanup is
\* () => Promise.resolve() (services.ts:110, 130, 176, 222)
CloseOutcomes(func) ==
  IF func = "createMongoDatabaseObjects"
    THEN {"ok", "MongoClientClosedError", "MongoNetworkError"}
    ELSE {"ok"}

\* does the bundle's cleanup function release the native client: only mongo's
\* calls close (services.ts:97-99)
ClosesClient(func) == func = "createMongoDatabaseObjects"

\* the benign teardown error of the document-store driver
BenignCloseError == "MongoClientClosedError"

\* the bundle's cleanup function: what its promise settles with, given the
\* outcome of the native close.  mongo: () => mongoClient.close(), the promise
\* of close() is returned as it is (services.ts:97-99).
BundleCleanup(func, closeOutcome) ==
  IF closeOutcome = "ok" THEN NoError ELSE Err(closeOutcome, "close")

\* the concurrency asyncMap is given (services.ts:345)
CleanupConcurrencyTwo == 1 + 1
CleanupConcurrency == 1

\* --------------------------------------------------------------- registry
\* omit(databases, 'default') then Object.entries (services.ts:357-363)
OtherNamesLastFirst ==
  LET ns == SelectSeq(KeyOrder, LAMBDA n : n # "default" /\ n \in DOMAIN databases)
  IN  [i \in 1..Len(ns) |-> ns[Len(ns) + 1 - i]]
OtherNames ==
  SelectSeq(KeyOrder, LAMBDA n : n # "default" /\ n \in DOMAIN databases)

\* default first (services.ts:365), then the named entries (services.ts:367)
BuildOrderNamedFirst == OtherNames \o <<"default">>
BuildOrder == <<"default">> \o OtherNames

\* datastoreType of the merged props of entry n; merge(undefined, neededProps)
\* yields props without datastoreType (services.ts:353-356)
PropsType(n) == IF n \in DOMAIN databases THEN databases[n] ELSE "undefined"

Put(f, k, v) == [x \in (DOMAIN f) \cup {k} |-> IF x = k THEN v ELSE f[x]]

\* a getDatabases() invocation: defaultDb and otherDatabases are the locals of
\* _getDatabases (services.ts:365-366); failed is history, the error of the
\* build that failed in this run
IdleCall ==
  [by |-> "none", pc |-> "idle", idx |-> 0, defaultDb |-> <<>>,
   otherDatabases |-> <<>>, error |-> NoError, failed |-> NoError]

\* the call record when _getDatabases starts (services.ts:348-364)
StartedCall(by) == [IdleCall EXCEPT !.by = by, !.pc = "building", !.idx = 1]

\* a build of the run failed: the await rethrows and the run rejects
\* (services.ts:365-376)
OnBuildFailureSkip(call, e) == [call EXCEPT !.pc = "building", !.idx = @ + 1]
OnBuildFailure(call, e) == [call EXCEPT !.pc = "rejected", !.error = e]

\* const defaultDb = ... (services.ts:365), merge(acc, {[name]: dbObjects})
\* (services.ts:371), and on to the next entry
OnBuilt(call, n, b) ==
  IF n = "default"
    THEN [call EXCEPT !.pc = "building", !.idx = @ + 1,
                      !.defaultDb = Put(<<>>, n, b)]
    ELSE [call EXCEPT !.pc = "building", !.idx = @ + 1,
                      !.otherDatabases = Put(call.otherDatabases, n, b)]

\* {default: defaultDb, ...otherDatabases} (services.ts:377-380)
ResolvedMapDefaultOnly(call) == call.defaultDb
ResolvedMap(call) == call.otherDatabases @@ call.defaultDb

\* Object.values(databases) of the resolved map (services.ts:345)
EntriesOfFirstRun(call) ==
  LET m == ResolvedMap(calls[1])
      keys == SelectSeq(KeyOrder, LAMBDA n : n \in DOMAIN m)
  IN  [i \in 1..Len(keys) |-> m[keys[i]]]
Entries(call) ==
  LET m == ResolvedMap(call)
      keys == SelectSeq(KeyOrder, LAMBDA n : n \in DOMAIN m)
  IN  [i \in 1..Len(keys) |-> m[keys[i]]]

\* no native client and no in-memory store
NoResource == <<0, "none">>

\* one run of a builder: client tells whether a native client was constructed
\* (knex throwing leaves none), cleanupCalls counts the invocations of the
\* bundle's cleanup function, closeOutcome is what the last of them met
NewBuild(func, status) ==
  [func |-> func, status |-> status,
   client |-> ConstructsClient(func) /\ ~(func = "createSqlDatabaseObjects" /\ status = "failed"),
   resource |-> NoResource,
   cleanupCalls |-> 0, closeOutcome |-> "none", closed |-> FALSE]

\* the native client, or the in-memory store, a run of a builder constructs:
\* new MongoClient(...), new OpenSearchClient(...), knex(...), new
\* DynamoDBClient(...), memoryDatastoreProvider.default.default({})
\* (services.ts:87, 108, 126, 165, 203) are evaluated in every run, so the
\* resource is the run's own; Object(props) and a throwing knex construct none
ConstructedPerCall(build, b) ==
  [build EXCEPT !.resource = IF build.func \in Builders /\ (build.client \/ ~ConstructsClient(build.func))
                               THEN <<b[1], "default">> ELSE NoResource]
Constructed(build, b) ==
  [build EXCEPT !.resource = IF build.func \in Builders /\ (build.client \/ ~ConstructsClient(build.func))
                               THEN b ELSE NoResource]

\* _getDatabases has no catch around its awaits (services.ts:365-376): when a
\* build fails, the bundles the run has built are left as they are
OnFailureBuildsRolledBack(bs, c) ==
  [b \in DOMAIN bs |->
     IF b[1] = c /\ bs[b].status = "ready"
       THEN [bs[b] EXCEPT !.cleanupCalls = @ + 1, !.closed = ClosesClient(bs[b].func)]
       ELSE bs[b]]
OnFailureBuilds(bs, c) == bs

\* a cleanup() invocation: idx is the next entry asyncMap starts, inflight the
\* entries whose cleanup promise is pending; seen is history, the bundles the
\* application held when cleanup() was called
IdleCleanup ==
  [pc |-> "none", idx |-> 0, inflight |-> {}, error |-> NoError, seen |-> {}]

\* asyncMap after an iteratee settled: it rejects with the first error and
\* starts nothing more, otherwise it goes on (services.ts:345)
OnCleanupSettledGoOn(cl, e) == cl
OnCleanupSettled(cl, e) ==
  IF e = NoError THEN cl ELSE [cl EXCEPT !.pc = "rejected", !.error = e]

\* the bundles that resolved getDatabases() calls of the application hold
Returned ==
  UNION {{ResolvedMap(calls[c])[n] : n \in DOMAIN ResolvedMap(calls[c])} :
           c \in {d \in Ops : calls[d].by = "app" /\ calls[d].pc = "resolved"}}

\* a configuration: some of the names, each with a datastoreType
Configured(names, types) ==
  \E present \in SUBSET names : databases \in [present -> types]

\* no CRUD service is in use
NoCruds ==
  /\ backend = "memory"
  /\ store = <<>>
  /\ deleting = {}
  /\ log = <<>>

\* no name has been resolved
IdleNaming ==
  [fn |-> "none", datastoreType |-> "none", systemName |-> <<>>,
   environment |-> <<>>, component |-> <<>>, custom |-> FALSE, result |-> <<>>]

NoNaming == naming = IdleNaming

\* no props have been merged, no mongo builder has run, nothing is wrapped
IdleMerging ==
  [pc |-> "idle", context |-> <<>>, entries |-> <<>>, before |-> <<>>,
   props |-> <<>>, handed |-> <<>>]

IdleConnection ==
  [pc |-> "idle", host |-> "", port |-> <<>>, username |-> <<>>,
   password |-> <<>>, connectionString |-> <<>>, uri |-> <<>>]

IdleWrapping ==
  [fn |-> "none", objs |-> <<>>, overrides |-> <<>>, objsAfter |-> <<>>,
   overridesAfter |-> <<>>, result |-> <<>>]

NoOther ==
  /\ merging = IdleMerging
  /\ connection = IdleConnection
  /\ wrapping = IdleWrapping

\* no service call has been issued
NoCalls ==
  /\ calls = [c \in Ops |-> IdleCall]
  /\ builds = <<>>
  /\ cleanups = [k \in Ops |-> IdleCleanup]
  /\ dispatched = {}

Init ==
  /\ Configured({"default", "cache"}, DatastoreTypes)
  /\ NoCalls
  /\ NoCruds
  /\ NoNaming
  /\ NoOther

\* the application issues its calls one after the other
MayStart(c) ==
  /\ calls[c].pc = "idle"
  /\ \A d \in Ops : d < c => calls[d].pc # "idle"

\* the application calls getDatabases() (services.ts:383): the memoizer is
\* created by memoizeValue(_getDatabases) inside the call and invoked at once,
\* so it is empty and runs _getDatabases
GetDatabases(c) ==
  /\ MayStart(c)
  /\ calls' = [calls EXCEPT ![c] = StartedCall("app")]
  /\ UNCHANGED <<crudVars, naming, otherVars, databases, builds, cleanups, dispatched>>

\* one getDatabaseObjects(props) of the run: dispatch and the synchronous part
\* of the builder (services.ts:326-332, 365, 370)
Build(c) ==
  /\ calls[c].pc = "building"
  /\ calls[c].idx <= Len(BuildOrder)
  /\ LET n == BuildOrder[calls[c].idx]
         t == PropsType(n)
         d == getDatabaseObjects(t)
         b == <<c, n>>
     IN  /\ dispatched' = dispatched \cup {[type |-> t, func |-> d.func, error |-> d.error]}
         /\ IF d.func = "none"
              THEN /\ calls' = [calls EXCEPT ![c] = [OnBuildFailure(@, d.error) EXCEPT !.failed = d.error]]
                   /\ builds' = OnFailureBuilds(builds, c)
              ELSE \E step \in BuilderSteps(d.func) :
                     CASE step = "bundle" ->
                            /\ builds' = Put(builds, b, Constructed(NewBuild(d.func, "ready"), b))
                            /\ calls' = [calls EXCEPT ![c] = OnBuilt(@, n, b)]
                       [] step = "props" ->
                            /\ builds' = Put(builds, b, Constructed(NewBuild(d.func, "ready"), b))
                            /\ calls' = [calls EXCEPT ![c] = OnBuilt(@, n, b)]
                       [] step = "await" ->
                            /\ builds' = Put(builds, b, Constructed(NewBuild(d.func, "connecting"), b))
                            /\ calls' = [calls EXCEPT ![c].pc = "connecting"]
                       [] step = "throw" ->
                            /\ builds' = OnFailureBuilds(Put(builds, b, Constructed(NewBuild(d.func, "failed"), b)), c)
                            /\ calls' = [calls EXCEPT ![c] =
                                 [OnBuildFailure(@, Err("knex", n)) EXCEPT !.failed = Err("knex", n)]]
  /\ UNCHANGED <<crudVars, naming, otherVars, databases, cleanups>>

\* await mongoClient.connect() settles (services.ts:88-104)
ConnectSettle(c) ==
  /\ calls[c].pc = "connecting"
  /\ LET n == BuildOrder[calls[c].idx]
         b == <<c, n>>
     IN  \/ /\ builds' = [builds EXCEPT ![b].status = "ready"]
            /\ calls' = [calls EXCEPT ![c] = OnBuilt(@, n, b)]
         \/ /\ builds' = OnFailureBuilds([builds EXCEPT ![b].status = "failed"], c)
            /\ calls' = [calls EXCEPT ![c] =
                 [OnBuildFailure(@, Err("connect", n)) EXCEPT !.failed = Err("connect", n)]]
  /\ UNCHANGED <<crudVars, naming, otherVars, databases, cleanups, dispatched>>

\* the run returns its map and the getDatabases() promise resolves
\* (services.ts:377-380)
Return(c) ==
  /\ calls[c].pc = "building"
  /\ calls[c].idx > Len(BuildOrder)
  /\ calls' = [calls EXCEPT ![c].pc = "resolved"]
  /\ UNCHANGED <<crudVars, naming, otherVars, databases, builds, cleanups, dispatched>>

\* ---------------------------------------------------------------- cleanup
\* the application calls cleanup(), which calls getDatabases() (services.ts:343-344)
Cleanup(k) ==
  /\ MayStart(k)
  /\ calls' = [calls EXCEPT ![k] = StartedCall("cleanup")]
  /\ cleanups' = [cleanups EXCEPT ![k] = [IdleCleanup EXCEPT !.pc = "awaiting", !.seen = Returned]]
  /\ UNCHANGED <<crudVars, naming, otherVars, databases, builds, dispatched>>

\* await getDatabases() settles (services.ts:344)
CleanupAwait(k) ==
  /\ cleanups[k].pc = "awaiting"
  /\ \/ /\ calls[k].pc = "resolved"
        /\ cleanups' = [cleanups EXCEPT ![k].pc = "mapping", ![k].idx = 1]
     \/ /\ calls[k].pc = "rejected"
        /\ cleanups' = [cleanups EXCEPT ![k].pc = "rejected", ![k].error = calls[k].error]
  /\ UNCHANGED <<crudVars, naming, otherVars, databases, calls, builds, dispatched>>

\* asyncMap(..., d => d.cleanup(), 1) starts the iteratee of the next entry
\* (services.ts:345); an entry without a cleanup function makes it throw
CleanupInvoke(k) ==
  /\ cleanups[k].pc = "mapping"
  /\ Cardinality(cleanups[k].inflight) < CleanupConcurrency
  /\ cleanups[k].idx <= Len(Entries(calls[k]))
  /\ LET b == Entries(calls[k])[cleanups[k].idx]
     IN  IF builds[b].func \in Builders
           THEN /\ builds' = [builds EXCEPT ![b].cleanupCalls = @ + 1,
                                             ![b].closeOutcome = "pending"]
                /\ cleanups' = [cleanups EXCEPT ![k].inflight = @ \cup {b},
                                                ![k].idx = @ + 1]
           ELSE /\ builds' = builds
                /\ cleanups' = [cleanups EXCEPT ![k] =
                     OnCleanupSettled([@ EXCEPT !.idx = @ + 1], Err("TypeError", "cleanup"))]
  /\ UNCHANGED <<crudVars, naming, otherVars, databases, calls, dispatched>>

\* the promise of an entry's cleanup function settles (services.ts:97-99,
\* 110, 130, 176, 222)
CleanupSettle(k) ==
  /\ cleanups[k].pc = "mapping"
  /\ \E b \in cleanups[k].inflight :
       \E out \in CloseOutcomes(builds[b].func) :
         /\ builds' = [builds EXCEPT ![b].closeOutcome = out,
                                     ![b].closed = @ \/ (out = "ok" /\ ClosesClient(builds[b].func))]
         /\ cleanups' = [cleanups EXCEPT ![k] =
              OnCleanupSettled([@ EXCEPT !.inflight = @ \ {b}],
                               BundleCleanup(builds[b].func, out))]
  /\ UNCHANGED <<crudVars, naming, otherVars, databases, calls, dispatched>>

\* every entry is done: cleanup() resolves (services.ts:345-346)
CleanupResolve(k) ==
  /\ cleanups[k].pc = "mapping"
  /\ cleanups[k].inflight = {}
  /\ cleanups[k].idx > Len(Entries(calls[k]))
  /\ cleanups' = [cleanups EXCEPT ![k].pc = "resolved"]
  /\ UNCHANGED <<crudVars, naming, otherVars, databases, calls, builds, dispatched>>

Next ==
  \/ \E c \in Ops : GetDatabases(c)
  \/ \E c \in Ops : Build(c)
  \/ \E c \in Ops : ConnectSettle(c)
  \/ \E c \in Ops : Return(c)
  \/ \E k \in Ops : Cleanup(k)
  \/ \E k \in Ops : CleanupAwait(k)
  \/ \E k \in Ops : CleanupInvoke(k)
  \/ \E k \in Ops : CleanupSettle(k)
  \/ \E k \in Ops : CleanupResolve(k)

Spec == Init /\ [][Next]_vars

\* the registry with up to two named entries besides "default", over the
\* memory and mongo builders
InitNamed ==
  /\ Configured(LogicalNames, {"memory", "mongo"})
  /\ NoCalls
  /\ NoCruds
  /\ NoNaming
  /\ NoOther

SpecNamed == InitNamed /\ [][Next]_vars

\* ------------------------------------------------------- model CRUD service
\* createModelCrudsService(model) (services.ts:239-294) over one bound model
\* whose data has a primary key id and one more property.

\* number of CRUD operations the application issues
MaxCrudOps == 3

Ids == {"k1", "k2"}
Texts == {"a", "b"}
Data == [id : Ids, name : Texts]
Queries == {"all"} \cup Texts

\* model.create(data): a live instance, which is not the plain data
Instance(d) == [live |-> TRUE, data |-> d]

\* instance.toObj(): the plain data of a live instance
toObj(inst) == inst.data

\* what a service call settles with
Value(v) == [kind |-> "value", val |-> <<v>>, page |-> "undefined", error |-> NoError]
Undefined == [kind |-> "undefined", val |-> <<>>, page |-> "undefined", error |-> NoError]
Rejected(e) == [kind |-> "rejected", val |-> <<>>, page |-> "undefined", error |-> e]
Found(objs, page) == [kind |-> "search", val |-> objs, page |-> page, error |-> NoError]

Without(st, id) == [x \in (DOMAIN st) \ {id} |-> st[x]]

\* instance.save() of the bound model: what the datastore holds afterwards and
\* what the promise settles with.  The in-memory store always yields the saved
\* instance; another adapter can fail, or report success without an instance.
SaveOutcomes == IF backend = "memory" THEN {"saved"} ELSE {"saved", "empty", "error"}

AdapterSave(st, inst, outcome) ==
  CASE outcome = "saved" ->
         [store |-> Put(st, toObj(inst).id, toObj(inst)),
          instance |-> <<Instance(toObj(inst))>>, error |-> NoError]
    [] outcome = "empty" ->
         [store |-> Put(st, toObj(inst).id, toObj(inst)),
          instance |-> <<>>, error |-> NoError]
    [] OTHER ->
         [store |-> st, instance |-> <<>>, error |-> Err("adapter", "save")]

\* model.retrieve(id): the live instance, or nothing
AdapterRetrieve(st, id) ==
  IF id \in DOMAIN st THEN <<Instance(st[id])>> ELSE <<>>

\* model.search(query): the matching records as live instances, in the order
\* of the engine (here by key), and the engine's page token
KeySeq == <<"k1", "k2">>
AdapterSearch(st, q, page) ==
  LET keys == SelectSeq(KeySeq, LAMBDA k : k \in DOMAIN st /\ (q = "all" \/ st[k].name = q))
  IN  [instances |-> [i \in 1..Len(keys) |-> Instance(st[keys[i]])],
       page |-> IF Len(keys) = 0 THEN "undefined" ELSE page]

PageTokens == IF backend = "memory" THEN {"undefined"} ELSE {"undefined", "next"}

\* update (services.ts:242-252)
updateNoCheck(st, data, outcome) ==
  LET saved == AdapterSave(st, Instance(data), outcome)
  IN  [store |-> saved.store,
       result |-> IF saved.error # NoError THEN Rejected(saved.error) ELSE Value(data)]
update(st, data, outcome) ==
  LET saved == AdapterSave(st, Instance(data), outcome)
  IN  [store |-> saved.store,
       result |-> IF saved.error # NoError
                    THEN Rejected(saved.error)
                    ELSE IF saved.instance = <<>>
                           THEN Rejected(Err("Error", "Impossible situation"))
                           ELSE Value(toObj(saved.instance[1]))]

\* const create = update (services.ts:254)
createInsertOnly(st, data, outcome) ==
  IF data.id \in DOMAIN st
    THEN [store |-> st, result |-> Rejected(Err("adapter", "exists"))]
    ELSE update(st, data, outcome)
create(st, data, outcome) == update(st, data, outcome)

\* retrieve (services.ts:265-272)
retrieveLive(st, id) ==
  LET inst == AdapterRetrieve(st, id)
  IN  IF inst = <<>> THEN Undefined ELSE Value(inst[1])
retrieveThrows(st, id) ==
  LET inst == AdapterRetrieve(st, id)
  IN  IF inst = <<>> THEN Rejected(Err("Error", "not found")) ELSE Value(toObj(inst[1]))
retrieve(st, id) ==
  LET inst == AdapterRetrieve(st, id)
  IN  IF inst = <<>> THEN Undefined ELSE Value(toObj(inst[1]))

\* del up to its second await: does it go on to instance.delete()
\* (services.ts:256-261)
delFindsAlways(st, id) == TRUE
delFinds(st, id) == AdapterRetrieve(st, id) # <<>>

\* search (services.ts:274-284)
searchNoPage(found) ==
  Found([i \in 1..Len(found.instances) |-> toObj(found.instances[i])], "undefined")
search(found) ==
  Found([i \in 1..Len(found.instances) |-> toObj(found.instances[i])], found.page)

\* a completed operation: pre and post are the datastore when it was called and
\* when it settled, outcome is what the adapter's save did, present tells
\* whether delete's id had a record when delete was called, found is what the
\* adapter's search returned, deletes counts the deletes issued to the adapter
Entry(op, pre, post, result) ==
  [op |-> op, data |-> <<>>, id |-> "", query |-> "", pre |-> pre, post |-> post,
   outcome |-> "none", present |-> FALSE,
   found |-> [instances |-> <<>>, page |-> "undefined"],
   result |-> result, deletes |-> 0]

MayIssue == Len(log) + Cardinality(deleting) < MaxCrudOps

\* a model CRUD service is bound to a model of an empty datastore
InitCruds ==
  /\ databases = [n \in {"default"} |-> "memory"]
  /\ NoCalls
  /\ NoNaming
  /\ NoOther
  /\ backend \in {"memory", "adapter"}
  /\ store = <<>>
  /\ deleting = {}
  /\ log = <<>>

Create(data) ==
  /\ MayIssue
  /\ \E outcome \in SaveOutcomes :
       LET r == create(store, data, outcome)
       IN  /\ store' = r.store
           /\ log' = Append(log, [Entry("create", store, r.store, r.result)
                                    EXCEPT !.data = <<data>>, !.id = data.id,
                                           !.outcome = outcome])
  /\ UNCHANGED <<registryVars, naming, otherVars, backend, deleting>>

Update(data) ==
  /\ MayIssue
  /\ \E outcome \in SaveOutcomes :
       LET r == update(store, data, outcome)
       IN  /\ store' = r.store
           /\ log' = Append(log, [Entry("update", store, r.store, r.result)
                                    EXCEPT !.data = <<data>>, !.id = data.id,
                                           !.outcome = outcome])
  /\ UNCHANGED <<registryVars, naming, otherVars, backend, deleting>>

Retrieve(id) ==
  /\ MayIssue
  /\ log' = Append(log, [Entry("retrieve", store, store, retrieve(store, id))
                           EXCEPT !.id = id])
  /\ UNCHANGED <<registryVars, naming, otherVars, backend, store, deleting>>

\* delete(id) up to the await of instance.delete() (services.ts:257-261); one
\* delete per id is in flight at a time
Delete(id) ==
  /\ MayIssue
  /\ \A d \in deleting : d.id # id
  /\ IF delFinds(store, id)
       THEN /\ deleting' = deleting \cup {[id |-> id, present |-> id \in DOMAIN store]}
            /\ log' = log
       ELSE /\ deleting' = deleting
            /\ log' = Append(log, [Entry("delete", store, store, Undefined)
                                     EXCEPT !.id = id, !.present = id \in DOMAIN store])
  /\ UNCHANGED <<registryVars, naming, otherVars, backend, store>>

\* instance.delete() settles and delete(id) resolves (services.ts:261-262)
DeleteDone(d) ==
  /\ d \in deleting
  /\ deleting' = deleting \ {d}
  /\ store' = Without(store, d.id)
  /\ log' = Append(log, [Entry("delete", store, Without(store, d.id), Undefined)
                           EXCEPT !.id = d.id, !.present = d.present, !.deletes = 1])
  /\ UNCHANGED <<registryVars, naming, otherVars, backend>>

Search(q) ==
  /\ MayIssue
  /\ \E page \in PageTokens :
       LET found == AdapterSearch(store, q, page)
       IN  log' = Append(log, [Entry("search", store, store, search(found))
                                 EXCEPT !.query = q, !.found = found])
  /\ UNCHANGED <<registryVars, naming, otherVars, backend, store, deleting>>

NextCruds ==
  \/ \E data \in Data : Create(data)
  \/ \E data \in Data : Update(data)
  \/ \E id \in Ids : Retrieve(id)
  \/ \E id \in Ids : Delete(id)
  \/ \E d \in deleting : DeleteDone(d)
  \/ \E q \in Queries : Search(q)

SpecCruds == InitCruds /\ [][NextCruds]_vars

\* ------------------------------------------------------------------ naming
\* Names are strings over a small alphabet: a lower-case letter, an upper-case
\* letter and a separator; a string is the sequence of its characters.
MaxLen == 2

Lower == {"a"}
Upper == {"B"}
Separators == {"-"}
Chars == Lower \cup Upper \cup Separators
Strings == UNION {[1..k -> Chars] : k \in 0..MaxLen}

\* an optional string: <<>> is undefined, <<s>> is the string s
Optional(S) == {<<>>} \cup {<<s>> : s \in S}
Truthy(opt) == opt # <<>> /\ opt[1] # <<>>

toLower(ch) == IF ch = "B" THEN "b" ELSE ch
lowerCase(w) == [i \in 1..Len(w) |-> toLower(w[i])]

\* lodash words(): a word starts after a separator, at an upper-case letter
\* that follows a lower-case one, and at the last upper-case letter of a run
\* that a lower-case letter follows
StartsWord(s, i) ==
  /\ s[i] \notin Separators
  /\ \/ i = 1
     \/ s[i - 1] \in Separators
     \/ s[i - 1] \in Lower /\ s[i] \in Upper
     \/ s[i] \in Upper /\ s[i - 1] \in Upper /\ i < Len(s) /\ s[i + 1] \in Lower

RECURSIVE wordsFrom(_, _, _)
wordsFrom(s, i, acc) ==
  IF i > Len(s) THEN acc
  ELSE IF s[i] \in Separators THEN wordsFrom(s, i + 1, acc)
  ELSE IF StartsWord(s, i) THEN wordsFrom(s, i + 1, Append(acc, <<s[i]>>))
  ELSE wordsFrom(s, i + 1, [acc EXCEPT ![Len(acc)] = Append(@, s[i])])

words(s) == wordsFrom(s, 1, <<>>)

\* the reducer of lodash kebabCase: result + (index ? '-' : '') + lower(word)
RECURSIVE compound(_)
compound(ws) ==
  IF ws = <<>> THEN <<>>
  ELSE IF Len(ws) = 1 THEN lowerCase(ws[1])
  ELSE compound(SubSeq(ws, 1, Len(ws) - 1)) \o <<"-">> \o lowerCase(ws[Len(ws)])

kebabCase(s) == compound(words(s))

Hyphen == <<"-">>

NameProps(systemName, environment, component) ==
  [systemName |-> systemName, environment |-> environment, component |-> component]

getSystemInfrastructureNameEnvironmentFirst(props) ==
  IF Truthy(props.component)
    THEN kebabCase(props.environment \o Hyphen \o props.component[1]
                     \o Hyphen \o props.systemName)
    ELSE kebabCase(props.environment \o Hyphen \o props.systemName)

getSystemInfrastructureName(props) ==
  IF Truthy(props.component)
    THEN kebabCase(props.systemName \o Hyphen \o props.component[1]
                     \o Hyphen \o props.environment)
    ELSE kebabCase(props.systemName \o Hyphen \o props.environment)

defaultGetTableNameForModelUnqualified(environment, systemName, model) ==
  kebabCase(model)

defaultGetTableNameForModel(environment, systemName, model) ==
  getSystemInfrastructureName(NameProps(systemName, environment, <<model>>))

\* getMongoCollectionNameForModel() takes no argument and returns the function
\* that names a model
getMongoCollectionNameForModel(model) == kebabCase(model)

\* a custom getTableNameForModel with the declared signature
\* (systemName, environment, model); "/" keeps its arguments apart
Slash == <<"/">>
customGetTableNameForModel(systemName, environment, model) ==
  systemName \o Slash \o environment \o Slash \o model

\* the datastore types whose builder hands a naming function to its adapter
NamedTypes == {"dynamo", "mongo", "opensearch", "sqlite", "mysql", "postgres"}

\* getTableNameForModel || <the builder's default>
NamerOf(func, custom) ==
  IF custom THEN "getTableNameForModel"
  ELSE IF func = "createMongoDatabaseObjects" THEN "getMongoCollectionNameForModel"
  ELSE "defaultGetTableNameForModel"

\* the number of declared parameters, which lodash curry takes as the arity
Arity(namer) == IF namer = "getMongoCollectionNameForModel" THEN 0 ELSE 3

Apply(namer, first, second, model) ==
  IF namer = "getTableNameForModel"
    THEN customGetTableNameForModel(first, second, model)
    ELSE defaultGetTableNameForModel(first, second, model)

\* curry(namer)(environment, systemName) and then the adapter's call with the
\* model: a namer of arity three waits for the model and is applied to the
\* three arguments in the order given; a namer of arity zero is invoked at
\* once with the two arguments, which it ignores, and the adapter calls what
\* it returned
Curried(namer, first, second, model) ==
  IF Arity(namer) <= 2
    THEN getMongoCollectionNameForModel(model)
    ELSE Apply(namer, first, second, model)

\* the name the adapter built for datastoreType t uses for a model
PhysicalName(t, custom, systemName, environment, model) ==
  Curried(NamerOf(supportedToDatastoreProviderFunc(t), custom),
          environment, systemName, model)

\* the inputs of a name resolution, none applied yet
InitNaming ==
  /\ databases = [n \in {"default"} |-> "memory"]
  /\ NoCalls
  /\ NoCruds
  /\ NoOther
  /\ \E systemName \in Strings, environment \in Strings,
        component \in Optional(Strings) :
       naming = [IdleNaming EXCEPT !.systemName = systemName,
                                   !.environment = environment,
                                   !.component = component]

Resolve ==
  /\ naming.fn = "none"
  /\ naming' = [naming EXCEPT
       !.fn = "getSystemInfrastructureName",
       !.result = getSystemInfrastructureName(
                    NameProps(naming.systemName, naming.environment,
                              naming.component))]
  /\ UNCHANGED <<registryVars, crudVars, otherVars>>

\* the adapter of a database of datastoreType t names the model called
\* naming.component
NameModel(t, custom) ==
  /\ naming.fn = "none"
  /\ naming.component # <<>>
  /\ naming' = [naming EXCEPT
       !.fn = supportedToDatastoreProviderFunc(t),
       !.datastoreType = t,
       !.custom = custom,
       !.result = PhysicalName(t, custom, naming.systemName,
                               naming.environment, naming.component[1])]
  /\ UNCHANGED <<registryVars, crudVars, otherVars>>

NextNaming ==
  \/ Resolve
  \/ \E t \in NamedTypes, custom \in BOOLEAN : NameModel(t, custom)

SpecNaming == InitNaming /\ [][NextNaming]_vars

\* ------------------------------------------------------------ props merging
\* An object is a function from its field names to their values.  The
\* context configuration always carries environment and systemName (they are
\* required fields of the core configuration).
Environments == {"dev", "prod"}
SystemNames == {"app", "shop"}

\* a configured entry: its datastoreType, and environment and systemName
\* when the entry sets them itself
EntryWith(extra) ==
  [k \in {"datastoreType"} \cup DOMAIN extra |->
     IF k = "datastoreType" THEN "memory" ELSE extra[k]]

ConfiguredEntries ==
  {EntryWith(extra) :
     extra \in UNION {[ks -> {"dev", "stale"}] :
                        ks \in SUBSET {"environment", "systemName"}}}

\* lodash merge(object, source) for a source whose values are all defined
\* strings: every field of source is assigned to object, which is returned
mergeKeepingObject(object, source) ==
  [k \in DOMAIN object \cup DOMAIN source |->
     IF k \in DOMAIN object THEN object[k] ELSE source[k]]
merge(object, source) ==
  [k \in DOMAIN object \cup DOMAIN source |->
     IF k \in DOMAIN source THEN source[k] ELSE object[k]]

\* const neededProps = {environment, systemName} (services.ts:349-352)
neededProps(context) ==
  [k \in {"environment", "systemName"} |-> context[k]]

\* Object.entries(omit(databases, 'default')) (services.ts:357-360)
NamedOf(entries) ==
  SelectSeq(KeyOrder, LAMBDA n : n # "default" /\ n \in DOMAIN entries)

\* merge(databases.default, neededProps) and merge(y, neededProps) assign
\* into the configured entry itself, omit() copying the entries by reference
\* (services.ts:353-363); merge(undefined, neededProps) assigns into a new
\* object
MergedEntries(entries, context) ==
  [n \in DOMAIN entries |-> merge(entries[n], neededProps(context))]

\* defaultDbProps and otherProps2 (services.ts:353-363)
MergedProps(entries, context) ==
  [n \in DOMAIN entries \cup {"default"} |->
     IF n \in DOMAIN entries
       THEN merge(entries[n], neededProps(context))
       ELSE merge(<<>>, neededProps(context))]

\* the order getDatabaseObjects receives the props in (services.ts:365-376)
HandOrder(entries) == <<"default">> \o NamedOf(entries)

InitMerging ==
  /\ databases = [n \in {"default"} |-> "memory"]
  /\ NoCalls
  /\ NoCruds
  /\ NoNaming
  /\ connection = IdleConnection
  /\ wrapping = IdleWrapping
  /\ \E names \in SUBSET {"default", "cache"} :
       \E entries \in [names -> ConfiguredEntries] :
         \E environment \in Environments, systemName \in SystemNames :
           merging = [IdleMerging EXCEPT
             !.context = [environment |-> environment, systemName |-> systemName],
             !.entries = entries,
             !.before = entries]

\* _getDatabases up to its first await (services.ts:348-364)
MergeProps ==
  /\ merging.pc = "idle"
  /\ merging' = [merging EXCEPT
       !.pc = "handing",
       !.before = merging.entries,
       !.entries = MergedEntries(merging.entries, merging.context),
       !.props = MergedProps(merging.entries, merging.context)]
  /\ UNCHANGED <<registryVars, crudVars, naming, connection, wrapping>>

\* the next getDatabaseObjects(props) of the run (services.ts:365, 370)
HandOver ==
  /\ merging.pc = "handing"
  /\ Len(merging.handed) < Len(HandOrder(merging.entries))
  /\ LET n == HandOrder(merging.entries)[Len(merging.handed) + 1]
     IN  merging' = [merging EXCEPT
           !.handed = Append(@, [name |-> n, props |-> merging.props[n]])]
  /\ UNCHANGED <<registryVars, crudVars, naming, connection, wrapping>>

\* the run returns its map (services.ts:377-380)
MergeDone ==
  /\ merging.pc = "handing"
  /\ Len(merging.handed) = Len(HandOrder(merging.entries))
  /\ merging' = [merging EXCEPT !.pc = "done"]
  /\ UNCHANGED <<registryVars, crudVars, naming, connection, wrapping>>

NextMerging == MergeProps \/ HandOver \/ MergeDone

SpecMerging == InitMerging /\ [][NextMerging]_vars

\* --------------------------------------------------------- mongo connection
\* A connection string is the sequence of the pieces its template puts together.
DEFAULT_MONGO_PORT == 27017

Hosts == {"h1", "h2"}
Ports == {0, 3000}
Usernames == {"", "u"}
Passwords == {"p"}
ConnectionStrings == {"mongodb://custom"}

\* `${value}` of an optional string
Text(opt) == IF opt = <<>> THEN "undefined" ELSE opt[1]

\* `${port}` of a port number
PortText(port) ==
  CASE port = 0 -> "0"
    [] port = 3000 -> "3000"
    [] port = DEFAULT_MONGO_PORT -> "27017"

\* createMongoConnectionString (services.ts:50-64)
createMongoConnectionString(props) ==
  <<"mongodb://">>
    \o (IF props.username # <<>> /\ props.username[1] # ""
          THEN <<props.username[1], ":", Text(props.password), "@">>
          ELSE <<>>)
    \o <<props.host, ":",
         PortText(IF props.port = <<>> \/ props.port[1] = 0
                    THEN DEFAULT_MONGO_PORT ELSE props.port[1])>>

\* what createMongoDatabaseObjects gives new MongoClient(...): it takes host,
\* port, username and password out of its props, not connectionString
\* (services.ts:66-87)
MongoClientUri(props) ==
  createMongoConnectionString(
    [host |-> props.host, port |-> props.port, username |-> props.username,
     password |-> props.password])

InitConnection ==
  /\ databases = [n \in {"default"} |-> "mongo"]
  /\ NoCalls
  /\ NoCruds
  /\ NoNaming
  /\ merging = IdleMerging
  /\ wrapping = IdleWrapping
  /\ \E host \in Hosts, port \in Optional(Ports), username \in Optional(Usernames),
        password \in Optional(Passwords),
        connectionString \in Optional(ConnectionStrings) :
       connection = [IdleConnection EXCEPT
         !.host = host, !.port = port, !.username = username,
         !.password = password, !.connectionString = connectionString]

\* createMongoDatabaseObjects up to new MongoClient(connectionString)
\* (services.ts:66-87)
MongoConnect ==
  /\ connection.pc = "idle"
  /\ connection' = [connection EXCEPT !.pc = "connecting",
                                      !.uri = MongoClientUri(connection)]
  /\ UNCHANGED <<registryVars, crudVars, naming, merging, wrapping>>

NextConnection == MongoConnect

SpecConnection == InitConnection /\ [][NextConnection]_vars

\* ----------------------------------------------------------- features layer
\* A ModelCrudsInterface is an object of six functions; a function is named
\* by who provides it, the model it serves and the operation.
CrudOps == {"getModel", "create", "update", "delete", "retrieve", "search"}
ModelNames == {"Users", "Orders"}
OverriddenOps == {"getModel", "create", "search"}

Service(n, op) == <<"service", n, op>>
Override(n, op) == <<"override", n, op>>

\* createModelCrudsService(model) of the model named n (services.ts:286-293)
ModelCruds(n) == [op \in CrudOps |-> Service(n, op)]

\* Partial<ModelCrudsInterface>: overrides of some operations
Overrides(n) == {[op \in ops |-> Override(n, op)] : ops \in SUBSET OverriddenOps}

\* {...a, ...b}: a new object
spread(a, b) ==
  [k \in DOMAIN a \cup DOMAIN b |-> IF k \in DOMAIN b THEN b[k] ELSE a[k]]

\* lodash merge(object, source) over objects of interfaces: an interface of
\* source is merged into the interface object holds under the same name, or
\* into a new object; the functions are assigned as they are
mergeInterfaces(object, source) ==
  [n \in DOMAIN object \cup DOMAIN source |->
     IF n \in DOMAIN source
       THEN merge(IF n \in DOMAIN object THEN object[n] ELSE <<>>, source[n])
       ELSE object[n]]

\* wrapModelCrudsService; result is what it returns, modelCruds and overrides
\* are its two arguments when it has returned.  features.ts builds the result
\* by spreading both, part_000 by merge({}, modelCruds, overrides).
wrapModelCrudsServiceInPlace(modelCruds, overrides) ==
  [result |-> merge(modelCruds, overrides),
   modelCruds |-> merge(modelCruds, overrides), overrides |-> overrides]
wrapModelCrudsService(modelCruds, overrides) ==
  [result |-> spread(modelCruds, overrides),
   modelCruds |-> modelCruds, overrides |-> overrides]

wrapModelCrudsServiceByMerge(modelCruds, overrides) ==
  [result |-> merge(merge(<<>>, modelCruds), overrides),
   modelCruds |-> modelCruds, overrides |-> overrides]

\* wrapAllModelCrudsServices(objs, overrides?): overrides = overrides || {},
\* then merge({}, objs, overrides)
wrapAllModelCrudsServices(objs, overrides) ==
  LET given == IF overrides = <<>> THEN <<>> ELSE overrides[1]
  IN  [result |-> mergeInterfaces(mergeInterfaces(<<>>, objs), given),
       objs |-> objs, overrides |-> overrides]

InitWrapping ==
  /\ databases = [n \in {"default"} |-> "memory"]
  /\ NoCalls
  /\ NoCruds
  /\ NoNaming
  /\ merging = IdleMerging
  /\ connection = IdleConnection
  /\ \E names \in SUBSET ModelNames, overridden \in SUBSET ModelNames :
       \E overrides \in Optional({f \in [overridden -> UNION {Overrides(n) : n \in ModelNames}] :
                                    \A n \in overridden : f[n] \in Overrides(n)}) :
         wrapping = [IdleWrapping EXCEPT
           !.objs = [n \in names |-> ModelCruds(n)],
           !.overrides = overrides]

\* a feature calls wrapModelCrudsService(modelCruds, overrides) for the model n
WrapModelCrudsService(n) ==
  /\ wrapping.fn = "none"
  /\ wrapping.overrides # <<>>
  /\ n \in DOMAIN wrapping.objs /\ n \in DOMAIN wrapping.overrides[1]
  /\ \E variant \in {"spread", "merge"} :
       LET out == IF variant = "spread"
                    THEN wrapModelCrudsService(wrapping.objs[n], wrapping.overrides[1][n])
                    ELSE wrapModelCrudsServiceByMerge(wrapping.objs[n], wrapping.overrides[1][n])
       IN  wrapping' = [wrapping EXCEPT
             !.fn = IF variant = "spread" THEN "wrapModelCrudsService"
                    ELSE "wrapModelCrudsServiceByMerge",
             !.objsAfter = [wrapping.objs EXCEPT ![n] = out.modelCruds],
             !.overridesAfter = <<[wrapping.overrides[1] EXCEPT ![n] = out.overrides]>>,
             !.result = [m \in {n} |-> out.result]]
  /\ UNCHANGED <<registryVars, crudVars, naming, merging, connection>>

\* a feature calls wrapAllModelCrudsServices(objs, overrides)
WrapAllModelCrudsServices ==
  /\ wrapping.fn = "none"
  /\ LET out == wrapAllModelCrudsServices(wrapping.objs, wrapping.overrides)
     IN  wrapping' = [wrapping EXCEPT
           !.fn = "wrapAllModelCrudsServices",
           !.objsAfter = out.objs,
           !.overridesAfter = out.overrides,
           !.result = out.result]
  /\ UNCHANGED <<registryVars, crudVars, naming, merging, connection>>

NextWrapping ==
  \/ \E n \in ModelNames : WrapModelCrudsService(n)
  \/ WrapAllModelCrudsServices

SpecWrapping == InitWrapping /\ [][NextWrapping]_vars

\* ----------------------------------------------------------------- claims
Settled(c) == calls[c].pc \in {"resolved", "rejected"}
BuildsOf(n) == {b \in DOMAIN builds : b[2] = n}
EntrySet(c) == {Entries(calls[c])[i] : i \in 1..Len(Entries(calls[c]))}

\* C1: while the getDatabases() calls issued so far are all concurrent (none
\* of them has completed), at most one build has run per logical database.
C1_AtMostOnceConstruction ==
  (\A c \in Ops : calls[c].by # "cleanup" /\ ~Settled(c))
    => \A n \in LogicalNames : Cardinality(BuildsOf(n)) <= 1

\* C2: all getDatabases() calls that resolved hold the same map of the same
\* bundles, and at most one construction was ever started.
C2_SameCachedResult ==
  /\ \A c, d \in Ops :
       (calls[c].pc = "resolved" /\ calls[d].pc = "resolved")
         => ResolvedMap(calls[c]) = ResolvedMap(calls[d])
  /\ Cardinality({c \in Ops : calls[c].pc # "idle"}) <= 1

\* C3: once cleanup() has resolved, the cleanup function of every bundle the
\* application got from an earlier getDatabases() has been invoked.
C3_CleanupTearsDownReturned ==
  \A k \in Ops :
    cleanups[k].pc = "resolved"
      => \A b \in cleanups[k].seen :
           builds[b].func \in Builders => builds[b].cleanupCalls >= 1

\* C4: within one cleanup() at most one entry's cleanup function is pending,
\* and an entry's cleanup function has been invoked only if that of the entry
\* before it has resolved.
C4_OneCleanupAtATime ==
  \A k \in Ops :
    cleanups[k].pc \in {"mapping", "resolved", "rejected"} =>
      LET es == Entries(calls[k])
      IN  /\ Cardinality({b \in EntrySet(k) : builds[b].closeOutcome = "pending"}) <= 1
          /\ \A i \in 1..(Len(es) - 1) :
               builds[es[i + 1]].cleanupCalls > 0 => builds[es[i]].closeOutcome = "ok"

C4_Witness ==
  \E k \in Ops :
    /\ Len(Entries(calls[k])) = 2
    /\ builds[Entries(calls[k])[1]].closeOutcome = "ok"
    /\ builds[Entries(calls[k])[2]].closeOutcome = "pending"

\* C5: when an entry's cleanup function has failed with an error other than
\* the benign one, cleanup() is rejected with that error, the failed cleanup
\* function was invoked once, and no later entry's was invoked at all.
C5_FirstErrorAborts ==
  \A k \in Ops :
    cleanups[k].pc # "none" =>
      LET es == Entries(calls[k])
      IN  \A i \in 1..Len(es) :
            builds[es[i]].closeOutcome \notin {"none", "pending", "ok", BenignCloseError} =>
              /\ cleanups[k].pc = "rejected"
              /\ cleanups[k].error = Err(builds[es[i]].closeOutcome, "close")
              /\ builds[es[i]].cleanupCalls = 1
              /\ \A j \in (i + 1)..Len(es) : builds[es[j]].cleanupCalls = 0

C5_Witness ==
  \E k \in Ops :
    /\ Len(Entries(calls[k])) = 2
    /\ builds[Entries(calls[k])[1]].closeOutcome = "MongoNetworkError"
    /\ cleanups[k].pc = "rejected"

\* C6: a mongo close that fails with the benign 'client already closed' error
\* never makes cleanup() reject: the bundle's cleanup function resolves and
\* cleanup() goes on.
C6_BenignCloseSuppressed ==
  \A k \in Ops :
    \A b \in EntrySet(k) :
      builds[b].closeOutcome = BenignCloseError => cleanups[k].pc # "rejected"

\* C7: with no "default" entry configured, no builder ever runs and no native
\* client is constructed, no getDatabases() resolves, and every getDatabases()
\* that settled was rejected with the factory's configuration error.
C7_MissingDefaultFailsFirst ==
  "default" \notin DOMAIN databases =>
    /\ DOMAIN builds = {}
    /\ \A c \in Ops :
         /\ calls[c].pc \in {"idle", "building", "rejected"}
         /\ calls[c].pc = "rejected" => calls[c].error = Err("Unhandled type", "undefined")

C7_Witness ==
  /\ "default" \notin DOMAIN databases
  /\ "cache" \in DOMAIN databases
  /\ databases["cache"] \in SupportedDatabase
  /\ \E c \in Ops : calls[c].pc = "rejected"

\* C8: every dispatch on a datastoreType outside the seven supported kinds
\* failed with 'Unhandled type <type>' and called no function.
C8_UnknownTypeFails ==
  \A d \in dispatched :
    d.type \notin SupportedDatabase =>
      d.func = "none" /\ d.error = Err("Unhandled type", d.type)

\* C9: a getDatabases() one of whose builds failed is rejected with that
\* build's error, so it hands no map to its caller; a cleanup() that awaits
\* it never reaches an entry.
C9_NoPartialRegistry ==
  \A c \in Ops :
    calls[c].failed # NoError =>
      /\ calls[c].pc = "rejected"
      /\ calls[c].error = calls[c].failed
      /\ cleanups[c].pc \in {"none", "awaiting", "rejected"}

C9_Witness ==
  \E c \in Ops :
    /\ calls[c].failed # NoError
    /\ DOMAIN calls[c].defaultDb = {"default"}
    /\ calls[c].pc = "rejected"

\* C10: the map of a getDatabases() that resolved has exactly the keys of the
\* databases configuration, each with the bundle built for that name in this
\* run.
C10_KeysMatchConfiguration ==
  \A c \in Ops :
    calls[c].pc = "resolved" =>
      /\ DOMAIN ResolvedMap(calls[c]) = DOMAIN databases
      /\ \A n \in DOMAIN databases :
           /\ ResolvedMap(calls[c])[n] = <<c, n>>
           /\ builds[<<c, n>>].status = "ready"

C10_Witness ==
  \E c \in Ops :
    /\ calls[c].pc = "resolved"
    /\ DOMAIN ResolvedMap(calls[c]) = {"default", "cache"}

\* C11: the cleanup function of a bundle has been invoked at most once, and
\* only by the cleanup() whose own getDatabases() built the bundle; no
\* getDatabases() of the application invokes one.
C11_CleanupInvokedOnce ==
  \A b \in DOMAIN builds :
    /\ builds[b].cleanupCalls <= 1
    /\ builds[b].cleanupCalls > 0 =>
         /\ calls[b[1]].by = "cleanup"
         /\ cleanups[b[1]].pc \in {"mapping", "resolved", "rejected"}

C11_Witness ==
  /\ \A k \in Ops : cleanups[k].pc = "resolved"
  /\ \A b \in DOMAIN builds : builds[b].cleanupCalls = 1
  /\ Cardinality(DOMAIN builds) >= 2 * MaxOps

\* C20: once the cleanup function of a bundle whose builder constructed a
\* native client has resolved, that client has been released.
C20_CleanupReleasesClient ==
  \A b \in DOMAIN builds :
    (builds[b].client /\ builds[b].closeOutcome = "ok") => builds[b].closed

\* C21: no native client and no in-memory store belongs to two bundles.
C21_ExclusiveClient ==
  \A b1, b2 \in DOMAIN builds :
    (b1 # b2 /\ builds[b1].resource # NoResource)
      => builds[b1].resource # builds[b2].resource

C21_Witness ==
  /\ \E c \in Ops :
       /\ calls[c].pc = "resolved"
       /\ {"default", "cache"} \subseteq DOMAIN ResolvedMap(calls[c])
       /\ databases["default"] = databases["cache"]
       /\ builds[<<c, "default">>].resource # NoResource
       /\ builds[<<c, "cache">>].resource # NoResource
  /\ \E m \in DOMAIN builds : builds[m].func = "createMemoryDatabaseObjects"

\* C26: within one run, a build starts only when the builds of "default" and
\* of every configured entry listed before it have completed, and at most one
\* build of the run is in flight.
Position(n) == CHOOSE i \in 1..Len(KeyOrder) : KeyOrder[i] = n

C26_BuildsSerialized ==
  \A c \in Ops :
    /\ Cardinality({b \in DOMAIN builds : b[1] = c /\ builds[b].status = "connecting"}) <= 1
    /\ \A n, m \in DOMAIN databases :
         (<<c, n>> \in DOMAIN builds /\ Position(m) < Position(n))
           => (<<c, m>> \in DOMAIN builds /\ builds[<<c, m>>].status = "ready")

C26_Witness ==
  \E c \in Ops :
    /\ DOMAIN databases = LogicalNames
    /\ {<<c, "default">>, <<c, "cache">>, <<c, "legacy">>} \subseteq DOMAIN builds
    /\ builds[<<c, "default">>].status = "ready"
    /\ builds[<<c, "cache">>].status = "ready"
    /\ builds[<<c, "legacy">>].status = "connecting"

\* C27: when a run of the registry construction has failed, the cleanup
\* function of none of the bundles it built has been invoked, and the native
\* clients it opened are not closed.
C27_NoRollback ==
  \A c \in Ops :
    calls[c].pc = "rejected"
      => \A b \in DOMAIN builds :
           b[1] = c => (builds[b].cleanupCalls = 0 /\ ~builds[b].closed)

C27_Witness ==
  \E c \in Ops :
    /\ calls[c].pc = "rejected"
    /\ calls[c].idx = 2
    /\ <<c, "default">> \in DOMAIN builds
    /\ builds[<<c, "default">>].status = "ready"
    /\ builds[<<c, "default">>].client
    /\ builds[<<c, "default">>].cleanupCalls = 0
    /\ ~builds[<<c, "default">>].closed

\* ---------------------------------------------------- claims, CRUD service
Saves == {"create", "update"}
Impossible == Rejected(Err("Error", "Impossible situation"))

\* C12: with the in-memory backend, a retrieve(data.id) that completes right
\* after create(data) yields the plain data that was created.
C12_CreateThenRetrieve ==
  backend = "memory" =>
    \A i \in 1..(Len(log) - 1) :
      (log[i].op = "create" /\ log[i + 1].op = "retrieve" /\ log[i + 1].id = log[i].id)
        => log[i + 1].result = Value(log[i].data[1])

C12_Witness ==
  /\ backend = "memory"
  /\ Len(log) = 3
  /\ log[1].op = "create" /\ log[2].op = "create" /\ log[2].id = log[1].id
  /\ log[2].data # log[1].data
  /\ log[3].op = "retrieve" /\ log[3].id = log[2].id
  /\ log[3].result = Value(log[2].data[1])

\* C13: a retrieve(id) called while the store has no record for id yields
\* undefined, no error, and leaves the store as it was.
C13_RetrieveAbsent ==
  \A i \in 1..Len(log) :
    (log[i].op = "retrieve" /\ log[i].id \notin DOMAIN log[i].pre)
      => log[i].result = Undefined /\ log[i].post = log[i].pre

C13_Witness ==
  /\ Len(log) = 3
  /\ log[1].op = "create" /\ log[1].result.kind = "value"
  /\ log[2].op = "delete" /\ log[2].id = log[1].id /\ log[2].deletes = 1
  /\ log[3].op = "retrieve" /\ log[3].id = log[1].id /\ log[3].result = Undefined

\* C14: a delete(id) called while the store has no record for id resolves,
\* issues no delete to the adapter and leaves the store as it was.
C14_DeleteAbsent ==
  \A i \in 1..Len(log) :
    (log[i].op = "delete" /\ ~log[i].present)
      => /\ log[i].result = Undefined
         /\ log[i].deletes = 0
         /\ log[i].post = log[i].pre

C14_Witness ==
  /\ Len(log) = 2
  /\ log[1].op = "create" /\ log[1].result.kind = "value"
  /\ log[2].op = "delete" /\ log[2].id # log[1].id /\ ~log[2].present
  /\ store = log[1].post

\* C15: create(data) and update(data) do the same: each upserts data and
\* yields it, fails as the adapter's save fails, and a create and an update
\* of the same data on the same store with the same adapter outcome agree.
C15_CreateIsUpdate ==
  /\ \A i \in 1..Len(log) :
       log[i].op \in Saves =>
         LET e == log[i]
             d == e.data[1]
         IN  \/ e.result = Value(d) /\ e.post = Put(e.pre, d.id, d)
             \/ e.result = Impossible /\ e.post = Put(e.pre, d.id, d)
             \/ e.result = Rejected(Err("adapter", "save")) /\ e.post = e.pre
  /\ \A i, j \in 1..Len(log) :
       (/\ log[i].op = "create" /\ log[j].op = "update"
        /\ log[i].data = log[j].data /\ log[i].pre = log[j].pre
        /\ log[i].outcome = log[j].outcome)
         => log[i].result = log[j].result /\ log[i].post = log[j].post

C15_Witness ==
  /\ Len(log) = 3
  /\ log[1].op = "update" /\ log[1].id \notin DOMAIN log[1].pre
  /\ log[1].result.kind = "value"
  /\ log[2].op = "create" /\ log[2].data = log[1].data
  /\ log[2].id \in DOMAIN log[2].pre
  /\ log[3].op = "update" /\ log[3].data = log[1].data
  /\ log[3].pre = log[2].pre /\ log[3].outcome = log[2].outcome
  /\ log[3].result = log[2].result /\ log[3].post = log[2].post

\* C16: search yields the plain form of every live instance the adapter
\* returned, in the adapter's order, and the adapter's page token; on an empty
\* store it yields no instances and page undefined.
C16_SearchShape ==
  \A i \in 1..Len(log) :
    log[i].op = "search" =>
      LET e == log[i]
      IN  /\ e.result.kind = "search"
          /\ Len(e.result.val) = Len(e.found.instances)
          /\ \A j \in 1..Len(e.found.instances) :
               /\ e.found.instances[j].live
               /\ e.result.val[j] = e.found.instances[j].data
               /\ e.result.val[j] \in Data
          /\ e.result.page = e.found.page
          /\ e.pre = <<>> => e.result = Found(<<>>, "undefined")

C16_Witness ==
  /\ Len(log) = 3
  /\ log[3].op = "search"
  /\ Len(log[3].result.val) = 2
  /\ log[3].result.page = "next"

\* C24: create and update fail with 'Impossible situation' exactly when the
\* adapter's save succeeded without an instance; a save that yields an
\* instance gives its plain form, and an error of save is passed on as it is.
C24_ImpossibleSituation ==
  \A i \in 1..Len(log) :
    log[i].op \in Saves =>
      /\ log[i].result = Impossible <=> log[i].outcome = "empty"
      /\ log[i].outcome = "saved" => log[i].result = Value(log[i].data[1])
      /\ log[i].outcome = "error" => log[i].result = Rejected(Err("adapter", "save"))

C24_Witness ==
  /\ Len(log) = 3
  /\ log[1].op = "create" /\ log[1].outcome = "empty" /\ log[1].result = Impossible
  /\ log[2].op = "update" /\ log[2].outcome = "error"
  /\ log[3].op = "update" /\ log[3].outcome = "saved"

\* --------------------------------------------------------- claims, naming
Named == naming.fn \in {supportedToDatastoreProviderFunc(t) : t \in NamedTypes}
ModelName == naming.component[1]

\* C17: the name resolver yields the lower-cased words of systemName, then of
\* the component, then of environment, joined by hyphens; without a component
\* it yields the words of systemName and of environment only.
C17_ResolverOrder ==
  naming.fn = "getSystemInfrastructureName"
    => naming.result =
         compound(words(naming.systemName)
                    \o (IF naming.component = <<>> THEN <<>>
                        ELSE words(naming.component[1]))
                    \o words(naming.environment))

C17_Witness ==
  /\ naming.fn = "getSystemInfrastructureName"
  /\ naming.systemName = <<"B">>
  /\ naming.component = << <<"a", "B">> >>
  /\ naming.environment = <<"a">>
  /\ naming.result = <<"b", "-", "a", "-", "b", "-", "a">>

\* C18 (as stated): with no custom naming function, every builder that takes
\* a naming function names a model by the resolver's result for systemName,
\* environment and the model's name as component.
C18_DefaultNamingEveryBuilder ==
  (Named /\ ~naming.custom)
    => naming.result =
         compound(words(naming.systemName) \o words(ModelName)
                    \o words(naming.environment))

\* C18 (amended): with no custom naming function, the dynamo, opensearch,
\* sqlite, mysql and postgres builders name a model by the resolver's result
\* for systemName, environment and the model's name as component; the mongo
\* builder names a collection by the kebab-cased model name alone.
C18_DefaultNaming ==
  (Named /\ ~naming.custom)
    => naming.result =
         IF naming.datastoreType = "mongo"
           THEN compound(words(ModelName))
           ELSE compound(words(naming.systemName) \o words(ModelName)
                           \o words(naming.environment))

C18_Witness ==
  /\ naming.datastoreType = "dynamo"
  /\ ~naming.custom
  /\ naming.systemName = <<"a">>
  /\ naming.component = << <<"a", "B">> >>
  /\ naming.environment = <<"B">>
  /\ naming.result = <<"a", "-", "a", "-", "b", "-", "b">>

\* C19: with a custom getTableNameForModel, the name used for a model is
\* custom(systemName, environment, model).
C19_CustomNamingAsDeclared ==
  (Named /\ naming.custom)
    => naming.result =
         customGetTableNameForModel(naming.systemName, naming.environment,
                                    ModelName)

\* -------------------------------------------------- claims, props merging
\* C22: the props handed to the builder of a configured entry are the
\* entry's configured fields, with environment and systemName set to the
\* values of the context configuration.
C22_PropsMerged ==
  \A i \in 1..Len(merging.handed) :
    LET n == merging.handed[i].name
        props == merging.handed[i].props
    IN  n \in DOMAIN merging.before
          => /\ props["environment"] = merging.context["environment"]
             /\ props["systemName"] = merging.context["systemName"]
             /\ DOMAIN props =
                  DOMAIN merging.before[n] \cup {"environment", "systemName"}
             /\ \A k \in DOMAIN merging.before[n] \ {"environment", "systemName"} :
                  props[k] = merging.before[n][k]

C22_Witness ==
  /\ merging.pc = "done"
  /\ Len(merging.handed) = 2
  /\ merging.handed[2].name = "cache"
  /\ "default" \in DOMAIN merging.before
  /\ "environment" \in DOMAIN merging.before["cache"]
  /\ merging.before["cache"]["environment"] # merging.context["environment"]
  /\ merging.handed[2].props["environment"] = merging.context["environment"]
  /\ DOMAIN merging.before["default"] = {"datastoreType"}

\* C23: getDatabases() leaves the configured entries as they were.
C23_ConfigurationUnchanged ==
  merging.pc # "idle" => merging.entries = merging.before

\* ------------------------------------------------ claims, mongo connection
\* C25: the mongo builder connects with the given connectionString as it is
\* when one is given; otherwise with a string made of host and port (27017
\* without a port), holding the credentials exactly when a username is given.
C25_ConnectionString ==
  connection.pc = "connecting"
    => IF connection.connectionString # <<>>
         THEN connection.uri = connection.connectionString
         ELSE /\ connection.uri[1] = "mongodb://"
              /\ connection.uri[Len(connection.uri) - 2] = connection.host
              /\ connection.uri[Len(connection.uri)] =
                   (IF connection.port \in {<<>>, <<0>>} THEN "27017"
                    ELSE PortText(connection.port[1]))
              /\ ("@" \in {connection.uri[i] : i \in 1..Len(connection.uri)})
                   <=> (connection.username # <<>> /\ connection.username[1] # "")

\* --------------------------------------------------- claims, features layer
GivenOverrides == IF wrapping.overrides = <<>> THEN <<>> ELSE wrapping.overrides[1]

\* C28: the wrapped interface holds the override for every operation the
\* overrides name and the operation of the wrapped service for every other
\* one; the arguments are left as they were; wrapping all services without
\* overrides returns an object equal to the services.
C28_WrapOverrides ==
  wrapping.fn # "none"
    => /\ wrapping.objsAfter = wrapping.objs
       /\ wrapping.overridesAfter = wrapping.overrides
       /\ \A n \in DOMAIN wrapping.result :
            \A op \in CrudOps :
              IF n \in DOMAIN GivenOverrides /\ op \in DOMAIN GivenOverrides[n]
                THEN wrapping.result[n][op] = Override(n, op)
              ELSE IF n \in DOMAIN wrapping.objs
                THEN wrapping.result[n][op] = Service(n, op)
              ELSE op \notin DOMAIN wrapping.result[n]
       /\ wrapping.fn = "wrapAllModelCrudsServices"
            => /\ DOMAIN wrapping.objs \subseteq DOMAIN wrapping.result
               /\ (\A n \in DOMAIN GivenOverrides : GivenOverrides[n] = <<>>)
                     => \A n \in DOMAIN wrapping.objs :
                          wrapping.result[n] = wrapping.objs[n]

C28_Witness ==
  /\ wrapping.fn = "wrapModelCrudsService"
  /\ DOMAIN wrapping.result = {"Users"}
  /\ DOMAIN wrapping.overrides[1]["Users"] = {"create"}
  /\ wrapping.result["Users"]["create"] = Override("Users", "create")
  /\ wrapping.result["Users"]["update"] = Service("Users", "update")
  /\ wrapping.objsAfter = wrapping.objs

====
